---------------------------- MODULE Spec2Model ----------------------------
(***************************************************************************)
(* Model of the aqua-watch groundwater dashboard screens.                  *)
(*                                                                         *)
(*   HomeScreen  (src/app/(tabs)/index.tsx): location selector, a fetch    *)
(*               cycle of probe, well-data, predict, analysis run by an    *)
(*               effect keyed on selectedCity.                             *)
(*   IndexScreen (src/app/index.tsx): one fetch cycle on mount, the three  *)
(*               requests issued together with Promise.all.                *)
(*                                                                         *)
(* An action is one run of the JavaScript event loop: an event handler     *)
(* with the render and effect it causes, or the continuation of fetchData  *)
(* from the await that resumed it up to the next await.                    *)
(***************************************************************************)
EXTENDS Integers, Sequences, FiniteSets, TLC

VARIABLES
    loading,        \* HomeScreen useState(true)
    chartData,      \* HomeScreen useState({labels: [], datasets: [{data: []}]})
    analysis,       \* HomeScreen useState({condition: '', steps: []})
    selectedCity,   \* HomeScreen useState('bhubaneswar_odisha')
    modalVisible,   \* HomeScreen useState(false)
    pc,             \* the await at which the running fetchData is suspended
    cycleCity,      \* selectedCity as captured by the running fetchData closure
    wellData,       \* local of fetchData, set by wellResponse.json()
    predictData,    \* local of fetchData, set by predictResponse.json()
    timeoutId,      \* TRUE while the probe's abort timer is pending
    net,            \* the outstanding request: "none", "pending" or "lost"
    sent,           \* history: the requests issued by the latest cycle
    parsed,         \* history: the bodies parsed by the latest cycle
    probeOutcome,   \* history: what the probe's fetch did in the latest cycle
    status,         \* history: per data request of the latest cycle, its status
    malformed,      \* history: the bodies of the latest cycle that were unusable
    lastEnd,        \* history: how the cycle before the latest one ended
    chartFrom,      \* history: the cycle that wrote chartData
    ixLoading,      \* IndexScreen useState(true)
    ixChartData,    \* IndexScreen chartData
    ixAnalysis,     \* IndexScreen analysis
    ixPc,           \* the await at which IndexScreen's fetchData is suspended
    ixResp,         \* per request of Promise.all: "pending", "ok" or "notOk"
    ixWellData,     \* local of IndexScreen's fetchData
    ixPredictData,  \* local of IndexScreen's fetchData
    ixMalformed     \* history: the bodies that were unusable

reactVars == <<loading, chartData, analysis, selectedCity, modalVisible>>
cycleVars == <<pc, cycleCity, wellData, predictData, timeoutId, net>>
histVars == <<sent, parsed, probeOutcome, status, malformed, lastEnd,
              chartFrom>>
homeVars == <<reactVars, cycleVars, histVars>>
indexVars == <<ixLoading, ixChartData, ixAnalysis, ixPc, ixResp, ixWellData,
               ixPredictData, ixMalformed>>
vars == <<homeVars, indexVars>>

---------------------------------------------------------------------------
(* Bounds of the model: the longest historical series and forecast a      *)
(* response carries.                                                      *)
MaxHist == 2
MaxFore == 1
\* Lengths of the series the composition is applied to on its own.
MaxLabels == 125
MaxLevels == 3
MaxForecast == 3

---------------------------------------------------------------------------
(* Location registry.                                                     *)

\* Mutant of CITY_INFO: latitude and longitude of Bhubaneswar are swapped
\* and Nagpur has no name.
CITY_INFO_Slipped ==
    [bhubaneswar_odisha |->
        [name |-> "Bhubaneswar", state |-> "Odisha",
         fullName |-> "Bhubaneswar, Odisha",
         coords |-> [latitude |-> 858245, longitude |-> 202961,
                     latitudeDelta |-> 5000, longitudeDelta |-> 5000]],
     jaipur_rajasthan |->
        [name |-> "Jaipur", state |-> "Rajasthan",
         fullName |-> "Jaipur, Rajasthan",
         coords |-> [latitude |-> 269124, longitude |-> 757873,
                     latitudeDelta |-> 5000, longitudeDelta |-> 5000]],
     nagpur_maharashtra |->
        [name |-> "", state |-> "Maharashtra",
         fullName |-> "Nagpur, Maharashtra",
         coords |-> [latitude |-> 211458, longitude |-> 790882,
                     latitudeDelta |-> 5000, longitudeDelta |-> 5000]]]

\* Coordinates are in 1/10000 of a degree.
CITY_INFO ==
    [bhubaneswar_odisha |->
        [name |-> "Bhubaneswar", state |-> "Odisha",
         fullName |-> "Bhubaneswar, Odisha",
         coords |-> [latitude |-> 202961, longitude |-> 858245,
                     latitudeDelta |-> 5000, longitudeDelta |-> 5000]],
     jaipur_rajasthan |->
        [name |-> "Jaipur", state |-> "Rajasthan",
         fullName |-> "Jaipur, Rajasthan",
         coords |-> [latitude |-> 269124, longitude |-> 757873,
                     latitudeDelta |-> 5000, longitudeDelta |-> 5000]],
     nagpur_maharashtra |->
        [name |-> "Nagpur", state |-> "Maharashtra",
         fullName |-> "Nagpur, Maharashtra",
         coords |-> [latitude |-> 211458, longitude |-> 790882,
                     latitudeDelta |-> 5000, longitudeDelta |-> 5000]]]

CityKey == DOMAIN CITY_INFO

\* const currentCity = CITY_INFO[selectedCity] and the mapLocation made of it.
currentCity(key) == CITY_INFO[key]
mapLocation(key) ==
    [latitude |-> currentCity(key).coords.latitude,
     longitude |-> currentCity(key).coords.longitude,
     latitudeDelta |-> 5000, longitudeDelta |-> 5000]

---------------------------------------------------------------------------
(* Values.  A JavaScript number is an integer >= 0 here; null and         *)
(* undefined are the two negative values below.  A date string is its day *)
(* number.  An object whose field may be missing carries a has-flag.      *)

NullValue == -1
UndefinedValue == -2

Endpoints == {"well-data", "predict", "analysis"}

\* The series the backend holds for a source: levels differ per city.
CityBase(key) ==
    CASE key = "bhubaneswar_odisha" -> 10
      [] key = "jaipur_rajasthan" -> 20
      [] key = "nagpur_maharashtra" -> 30
      [] OTHER -> 40

ServerDates(n) == [i \in 1..n |-> i]
ServerLevels(key, n) == [i \in 1..n |-> CityBase(key) + i]
ServerPredicted(key, n) == [i \in 1..n |-> CityBase(key) + 5 + i]

\* Response bodies.  json = FALSE: the body is not JSON.
WellBodies(key) ==
    {[json |-> FALSE, hasDates |-> FALSE, dates |-> <<>>,
      hasLevels |-> FALSE, levels |-> <<>>]}
    \cup {[json |-> TRUE, hasDates |-> hd,
           dates |-> IF hd THEN ServerDates(n) ELSE <<>>,
           hasLevels |-> hl,
           levels |-> IF hl THEN ServerLevels(key, n) ELSE <<>>] :
             hd \in BOOLEAN, hl \in BOOLEAN, n \in {MaxHist}}
    \cup {[json |-> TRUE, hasDates |-> TRUE, dates |-> ServerDates(n),
           hasLevels |-> TRUE, levels |-> ServerLevels(key, n)] :
             n \in 0..MaxHist}

PredictBodies(key) ==
    {[json |-> FALSE, hasPredicted |-> FALSE, predicted_levels |-> <<>>],
     [json |-> TRUE, hasPredicted |-> FALSE, predicted_levels |-> <<>>]}
    \cup {[json |-> TRUE, hasPredicted |-> TRUE,
           predicted_levels |-> ServerPredicted(key, n)] : n \in 0..MaxFore}

Conditions == {"Critical", "Semi-Critical", "Safe"}

AnalysisBodies ==
    {[json |-> FALSE, hasCondition |-> FALSE, condition |-> "",
      hasSteps |-> FALSE, steps |-> <<>>]}
    \cup {[json |-> TRUE, hasCondition |-> hc,
           condition |-> IF hc THEN c ELSE "",
           hasSteps |-> hs,
           steps |-> IF hs THEN <<"Reduce pumping">> ELSE <<>>] :
             hc \in BOOLEAN, hs \in BOOLEAN, c \in {"Semi-Critical"}}
    \cup {[json |-> TRUE, hasCondition |-> TRUE, condition |-> c,
           hasSteps |-> TRUE, steps |-> <<"Reduce pumping">>] :
             c \in Conditions}

\* HTTP statuses a response carries; response.ok is status in 200..299.
Statuses == {200, 500}
ResponseOk(code) == code >= 200 /\ code <= 299

NoWellData == [json |-> FALSE, hasDates |-> FALSE, dates |-> <<>>,
               hasLevels |-> FALSE, levels |-> <<>>]
NoPredictData == [json |-> FALSE, hasPredicted |-> FALSE,
                  predicted_levels |-> <<>>]

---------------------------------------------------------------------------
(* Composition of the chart series, as both screens do it.                *)

LABEL_STRIDE == 60

\* Mutant of filterLabels: the stride is counted on the 1-based position.
filterLabelsOneBased(labels) ==
    LET kept == {i \in DOMAIN labels : i % LABEL_STRIDE = 0}
        nth(k) == CHOOSE i \in kept : Cardinality({j \in kept : j < i}) = k - 1
    IN  [k \in 1..Cardinality(kept) |-> labels[nth(k)]]

\* combinedLabels.filter((_, i) => i % 60 === 0): the elements whose 0-based
\* index i (position i + 1 of the sequence) passes the test, in their order.
filterLabels(labels) ==
    LET kept == {i \in DOMAIN labels : (i - 1) % LABEL_STRIDE = 0}
        nth(k) == CHOOSE i \in kept : Cardinality({j \in kept : j < i}) = k - 1
    IN  [k \in 1..Cardinality(kept) |-> labels[nth(k)]]

\* Mutant of nullArray: one null short.
nullArrayShort(n) == [i \in 1..(n - 1) |-> NullValue]

\* Array(n).fill(null)
nullArray(n) == [i \in 1..n |-> NullValue]

\* Array(...).fill(null).concat(x): an array is spread, any other value
\* (undefined here) is appended as one element.
concatPredicted(arr, p) ==
    IF p.hasPredicted THEN arr \o p.predicted_levels
    ELSE Append(arr, UndefinedValue)

\* Does the composition throw?  [...undefined] and undefined.length do.
composeThrows(w, p) == ~w.hasDates \/ ~w.hasLevels

\* Mutant of composeChart: the historical dataset is padded with nulls to
\* the length of the forecast dataset.
composeChartPadded(w, p) ==
    [labels |-> filterLabels(w.dates),
     datasets |-> <<[data |-> w.levels
                              \o [i \in 1..Len(p.predicted_levels) |-> NullValue]],
                    [data |-> concatPredicted(nullArray(Len(w.levels)), p)]>>]

composeChart(w, p) ==
    [labels |-> filterLabels(w.dates),
     datasets |-> <<[data |-> w.levels],
                    [data |-> concatPredicted(nullArray(Len(w.levels)), p)]>>]

InitialChart == [labels |-> <<>>, datasets |-> <<[data |-> <<>>]>>]
InitialAnalysis == [hasCondition |-> TRUE, condition |-> "",
                    hasSteps |-> TRUE, steps |-> <<>>]

\* Mutant of analysisOf: the condition is normalised to its severity word.
analysisOfNormalised(body) ==
    [hasCondition |-> body.hasCondition,
     condition |-> IF body.condition = "Semi-Critical"
                     THEN "Critical" ELSE body.condition,
     hasSteps |-> body.hasSteps, steps |-> body.steps]

\* setAnalysis(analysisData): the parsed object as it is.
analysisOf(body) ==
    [hasCondition |-> body.hasCondition, condition |-> body.condition,
     hasSteps |-> body.hasSteps, steps |-> body.steps]

---------------------------------------------------------------------------
(* Error messages.  The first step of the error analysis is               *)
(* `Error: ${errorMessage}`; the constant prefix is left out.             *)

MsgCannotConnect == "Cannot connect to backend server"
MsgNetwork == "Network request failed"
MsgJson == "JSON Parse error"
MsgType == "TypeError: undefined is not an object"

statusMessage(endpoint, code) ==
    CASE endpoint = "well-data" /\ code = 500 ->
            "Well data request failed with status: 500"
      [] endpoint = "predict" /\ code = 500 ->
            "Predict request failed with status: 500"
      [] endpoint = "analysis" /\ code = 500 ->
            "Analysis request failed with status: 500"
      [] OTHER -> "request failed with another status"

connectionError(errorMessage) ==
    [hasCondition |-> TRUE, condition |-> "Connection Error",
     hasSteps |-> TRUE,
     steps |-> <<errorMessage,
                 "Check if the Flask backend is running on port 5000",
                 "Verify your device is connected to the same WiFi network",
                 "Backend URL: https://aqua-watch.onrender.com">>]

---------------------------------------------------------------------------
(* HomeScreen.                                                            *)

Init ==
    /\ loading = TRUE
    /\ chartData = InitialChart
    /\ analysis = InitialAnalysis
    /\ selectedCity = "bhubaneswar_odisha"
    /\ modalVisible = FALSE
    \* the mount effect has run fetchData up to its first await
    /\ pc = "probe"
    /\ cycleCity = "bhubaneswar_odisha"
    /\ wellData = NoWellData
    /\ predictData = NoPredictData
    /\ timeoutId = TRUE
    /\ net = "pending"
    /\ sent = {"probe"}
    /\ parsed = {}
    /\ probeOutcome = "none"
    /\ status = [e \in Endpoints |-> "none"]
    /\ malformed = {}
    /\ lastEnd = "none"
    /\ chartFrom = "none"
    \* IndexScreen: the mount effect has issued the three requests
    /\ ixLoading = TRUE
    /\ ixChartData = InitialChart
    /\ ixAnalysis = InitialAnalysis
    /\ ixPc = "all"
    /\ ixResp = [e \in Endpoints |-> "pending"]
    /\ ixWellData = NoWellData
    /\ ixPredictData = NoPredictData
    /\ ixMalformed = {}

\* The effect keyed on selectedCity: fetchData starts and runs up to the
\* await of the probe's fetch.
startFetch(key) ==
    /\ pc' = "probe"
    /\ cycleCity' = key
    /\ wellData' = NoWellData
    /\ predictData' = NoPredictData
    /\ timeoutId' = TRUE
    /\ net' = "pending"
    /\ sent' = {"probe"}
    /\ parsed' = {}
    /\ probeOutcome' = "none"
    /\ status' = [e \in Endpoints |-> "none"]
    /\ malformed' = {}
    /\ lastEnd' = IF analysis.condition = "Connection Error"
                    THEN "failed" ELSE "ready"
    /\ chartFrom' = IF chartFrom = "current" THEN "earlier" ELSE chartFrom

\* Mutant of fail: the catch block starts the probe again.
failRetries(errorMessage) ==
    /\ analysis' = connectionError(errorMessage)
    /\ loading' = FALSE
    /\ pc' = "probe"
    /\ net' = "pending"
    /\ wellData' = NoWellData
    /\ predictData' = NoPredictData
    /\ UNCHANGED <<chartData, chartFrom, cycleCity, sent>>

\* catch and finally of fetchData: the error analysis, loading off.
fail(errorMessage) ==
    /\ analysis' = connectionError(errorMessage)
    /\ loading' = FALSE
    /\ pc' = "idle"
    /\ net' = "none"
    /\ wellData' = NoWellData
    /\ predictData' = NoPredictData
    /\ UNCHANGED <<chartData, chartFrom, cycleCity, sent>>

\* fetchData goes on to its next request.
issue(endpoint, nextPc) ==
    /\ pc' = nextPc
    /\ net' = "pending"
    /\ sent' = sent \cup {endpoint}
    /\ UNCHANGED <<loading, chartData, analysis, chartFrom, cycleCity,
                   wellData, predictData>>

\* Mutant of onPressDropdown: opening the modal shows the spinner.
onPressDropdownSetsLoading ==
    /\ ~loading
    /\ ~modalVisible
    /\ modalVisible' = TRUE
    /\ loading' = TRUE
    /\ UNCHANGED <<chartData, analysis, selectedCity>>
    /\ UNCHANGED <<cycleVars, histVars, indexVars>>

\* The selector and the modal are rendered only when loading is false.
onPressDropdown ==
    /\ ~loading
    /\ ~modalVisible
    /\ modalVisible' = TRUE
    /\ UNCHANGED <<loading, chartData, analysis, selectedCity>>
    /\ UNCHANGED <<cycleVars, histVars, indexVars>>

onRequestClose ==
    /\ ~loading
    /\ modalVisible
    /\ modalVisible' = FALSE
    /\ UNCHANGED <<loading, chartData, analysis, selectedCity>>
    /\ UNCHANGED <<cycleVars, histVars, indexVars>>

onPressClose ==
    /\ ~loading
    /\ modalVisible
    /\ modalVisible' = FALSE
    /\ UNCHANGED <<loading, chartData, analysis, selectedCity>>
    /\ UNCHANGED <<cycleVars, histVars, indexVars>>

\* Mutant of onPressCity: setLoading(true) is left out.
onPressCityKeepsLoading(key) ==
    /\ ~loading
    /\ modalVisible
    /\ selectedCity' = key
    /\ modalVisible' = FALSE
    /\ UNCHANGED loading
    /\ IF key # selectedCity
         THEN startFetch(key)
         ELSE UNCHANGED <<cycleVars, histVars>>
    /\ UNCHANGED <<chartData, analysis>>
    /\ UNCHANGED indexVars

\* A city option of the modal is pressed; the effect runs when the key
\* differs from the selected one.
onPressCity(key) ==
    /\ ~loading
    /\ modalVisible
    /\ selectedCity' = key
    /\ modalVisible' = FALSE
    /\ loading' = TRUE
    /\ IF key # selectedCity
         THEN startFetch(key)
         ELSE UNCHANGED <<cycleVars, histVars>>
    /\ UNCHANGED <<chartData, analysis>>
    /\ UNCHANGED indexVars

\* The network never answers the outstanding request.
requestLost ==
    /\ net = "pending"
    /\ net' = "lost"
    /\ UNCHANGED <<pc, cycleCity, wellData, predictData, timeoutId>>
    /\ UNCHANGED <<reactVars, histVars, indexVars>>

\* testBackendConnection's result for what its fetch did: a response with
\* a success status ("ok"), another response ("notOk"), a rejection
\* ("reject") or the abort by the timer ("abort").
ProbeOutcomes == {"ok", "notOk", "reject"}
\* Mutant of isConnected: response.ok is not looked at.
isConnectedAnyStatus(outcome) == outcome \in {"ok", "notOk"}
isConnected(outcome) == outcome = "ok"

\* fetchData after testBackendConnection returned.
afterProbe(outcome) ==
    /\ probeOutcome' = outcome
    /\ IF isConnected(outcome)
         THEN issue("well-data", "well")
         ELSE fail(MsgCannotConnect)
    /\ UNCHANGED <<selectedCity, modalVisible, parsed, status, malformed,
                   lastEnd>>

probeSettles(outcome) ==
    /\ pc = "probe"
    /\ net = "pending"
    \* clearTimeout is reached only when the fetch resolved
    /\ timeoutId' = IF outcome = "reject" THEN timeoutId ELSE FALSE
    /\ afterProbe(outcome)
    /\ UNCHANGED indexVars

\* The 10 s timer fires: controller.abort() rejects the probe's fetch if
\* it is still outstanding, and does nothing otherwise.
timeoutFires ==
    /\ timeoutId
    /\ timeoutId' = FALSE
    /\ IF pc = "probe"
         THEN afterProbe("abort")
         ELSE UNCHANGED <<reactVars, histVars, pc, cycleCity, wellData,
                          predictData, net>>
    /\ UNCHANGED indexVars

\* Mutant of afterResponse: the status is logged but not checked.
afterResponseUnchecked(endpoint, code, nextEndpoint, nextPc) ==
    /\ status' = [status EXCEPT
                    ![endpoint] = IF ResponseOk(code) THEN "ok" ELSE "notOk"]
    /\ issue(nextEndpoint, nextPc)
    /\ UNCHANGED <<selectedCity, modalVisible, timeoutId, parsed,
                   probeOutcome, malformed, lastEnd>>
    /\ UNCHANGED indexVars

\* fetchData after a data request's response: the status check.
afterResponse(endpoint, code, nextEndpoint, nextPc) ==
    /\ status' = [status EXCEPT
                    ![endpoint] = IF ResponseOk(code) THEN "ok" ELSE "notOk"]
    /\ IF ResponseOk(code)
         THEN issue(nextEndpoint, nextPc)
         ELSE fail(statusMessage(endpoint, code))
    /\ UNCHANGED <<selectedCity, modalVisible, timeoutId, parsed,
                   probeOutcome, malformed, lastEnd>>
    /\ UNCHANGED indexVars

wellResponds(code) ==
    /\ pc = "well"
    /\ net = "pending"
    /\ afterResponse("well-data", code, "predict", "predict")

predictResponds(code) ==
    /\ pc = "predict"
    /\ net = "pending"
    /\ afterResponse("predict", code, "analysis", "analysis")

analysisResponds(code) ==
    /\ pc = "analysis"
    /\ net = "pending"
    /\ status' = [status EXCEPT
                    !["analysis"] = IF ResponseOk(code) THEN "ok" ELSE "notOk"]
    /\ IF ResponseOk(code)
         THEN /\ pc' = "wellJson"
              /\ net' = "none"
              /\ UNCHANGED <<loading, chartData, analysis, chartFrom,
                             cycleCity, wellData, predictData, sent>>
         ELSE fail(statusMessage("analysis", code))
    /\ UNCHANGED <<selectedCity, modalVisible, timeoutId, parsed,
                   probeOutcome, malformed, lastEnd>>
    /\ UNCHANGED indexVars

\* One of the three data fetches rejects (no network).
fetchRejects ==
    /\ pc \in {"well", "predict", "analysis"}
    /\ net = "pending"
    /\ fail(MsgNetwork)
    /\ UNCHANGED <<selectedCity, modalVisible, timeoutId, parsed,
                   probeOutcome, status, malformed, lastEnd>>
    /\ UNCHANGED indexVars

\* A body that does not have the shape the screen expects.
wellUnusable(body) == ~body.json \/ ~body.hasDates \/ ~body.hasLevels
predictUnusable(body) == ~body.json \/ ~body.hasPredicted
analysisUnusable(body) == ~body.json \/ ~body.hasCondition \/ ~body.hasSteps

wellJson(body) ==
    /\ pc = "wellJson"
    /\ malformed' = IF wellUnusable(body)
                      THEN malformed \cup {"well-data"} ELSE malformed
    /\ IF body.json
         THEN /\ wellData' = body
              /\ parsed' = parsed \cup {"well-data"}
              /\ pc' = "predictJson"
              /\ UNCHANGED <<loading, chartData, analysis, chartFrom,
                             cycleCity, predictData, net, sent>>
         ELSE fail(MsgJson) /\ UNCHANGED parsed
    /\ UNCHANGED <<selectedCity, modalVisible, timeoutId, probeOutcome,
                   status, lastEnd>>
    /\ UNCHANGED indexVars

predictJson(body) ==
    /\ pc = "predictJson"
    /\ malformed' = IF predictUnusable(body)
                      THEN malformed \cup {"predict"} ELSE malformed
    /\ IF body.json
         THEN /\ predictData' = body
              /\ parsed' = parsed \cup {"predict"}
              /\ pc' = "analysisJson"
              /\ UNCHANGED <<loading, chartData, analysis, chartFrom,
                             cycleCity, wellData, net, sent>>
         ELSE fail(MsgJson) /\ UNCHANGED parsed
    /\ UNCHANGED <<selectedCity, modalVisible, timeoutId, probeOutcome,
                   status, lastEnd>>
    /\ UNCHANGED indexVars

\* The last body is parsed; the chart is composed and the state committed.
analysisJson(body) ==
    /\ pc = "analysisJson"
    /\ malformed' = IF analysisUnusable(body)
                      THEN malformed \cup {"analysis"} ELSE malformed
    /\ IF ~body.json
         THEN fail(MsgJson) /\ UNCHANGED parsed
         ELSE /\ parsed' = parsed \cup {"analysis"}
              /\ IF composeThrows(wellData, predictData)
                   THEN fail(MsgType)
                   ELSE /\ chartData' = composeChart(wellData, predictData)
                        /\ analysis' = analysisOf(body)
                        /\ chartFrom' = "current"
                        /\ loading' = FALSE
                        /\ pc' = "idle"
                        /\ wellData' = NoWellData
                        /\ predictData' = NoPredictData
                        /\ UNCHANGED <<cycleCity, net, sent>>
    /\ UNCHANGED <<selectedCity, modalVisible, timeoutId, probeOutcome,
                   status, lastEnd>>
    /\ UNCHANGED indexVars

Next ==
    \/ onPressDropdown
    \/ onRequestClose
    \/ onPressClose
    \/ \E key \in CityKey : onPressCity(key)
    \/ requestLost
    \/ \E outcome \in ProbeOutcomes : probeSettles(outcome)
    \/ timeoutFires
    \/ \E code \in Statuses : wellResponds(code)
    \/ \E code \in Statuses : predictResponds(code)
    \/ \E code \in Statuses : analysisResponds(code)
    \/ fetchRejects
    \/ \E body \in WellBodies(cycleCity) : wellJson(body)
    \/ \E body \in PredictBodies(cycleCity) : predictJson(body)
    \/ \E body \in AnalysisBodies : analysisJson(body)

Spec == Init /\ [][Next]_vars

---------------------------------------------------------------------------
(* IndexScreen: no selector, no probe, no status check.                   *)

\* The requests carry no source; the backend answers with its default set.
DefaultSource == "default"

indexError ==
    [hasCondition |-> TRUE, condition |-> "Error", hasSteps |-> TRUE,
     steps |-> <<"Could not connect to the server. Make sure the backend is running and the IP address is correct.">>]

\* catch and finally of IndexScreen's fetchData.
ixFail ==
    /\ ixAnalysis' = indexError
    /\ ixLoading' = FALSE
    /\ ixPc' = "done"
    /\ ixWellData' = NoWellData
    /\ ixPredictData' = NoPredictData
    /\ UNCHANGED ixChartData

\* One fetch of Promise.all resolves with a response, whatever its status;
\* Promise.all resolves when the last of the three has.
ixResponds(endpoint, code) ==
    /\ ixPc = "all"
    /\ ixResp[endpoint] = "pending"
    /\ ixResp' = [ixResp EXCEPT
                    ![endpoint] = IF ResponseOk(code) THEN "ok" ELSE "notOk"]
    /\ ixPc' = IF \A e \in Endpoints : ixResp'[e] # "pending"
                 THEN "wellJson" ELSE "all"
    /\ UNCHANGED <<ixLoading, ixChartData, ixAnalysis, ixWellData,
                   ixPredictData, ixMalformed>>
    /\ UNCHANGED homeVars

\* One fetch rejects: Promise.all rejects at once.
ixRejects(endpoint) ==
    /\ ixPc = "all"
    /\ ixResp[endpoint] = "pending"
    /\ ixResp' = [ixResp EXCEPT ![endpoint] = "rejected"]
    /\ ixFail
    /\ UNCHANGED ixMalformed
    /\ UNCHANGED homeVars

ixWellJson(body) ==
    /\ ixPc = "wellJson"
    /\ ixMalformed' = IF wellUnusable(body)
                        THEN ixMalformed \cup {"well-data"} ELSE ixMalformed
    /\ IF body.json
         THEN /\ ixWellData' = body
              /\ ixPc' = "predictJson"
              /\ UNCHANGED <<ixLoading, ixChartData, ixAnalysis,
                             ixPredictData>>
         ELSE ixFail
    /\ UNCHANGED ixResp
    /\ UNCHANGED homeVars

ixPredictJson(body) ==
    /\ ixPc = "predictJson"
    /\ ixMalformed' = IF predictUnusable(body)
                        THEN ixMalformed \cup {"predict"} ELSE ixMalformed
    /\ IF body.json
         THEN /\ ixPredictData' = body
              /\ ixPc' = "analysisJson"
              /\ UNCHANGED <<ixLoading, ixChartData, ixAnalysis, ixWellData>>
         ELSE ixFail
    /\ UNCHANGED ixResp
    /\ UNCHANGED homeVars

ixAnalysisJson(body) ==
    /\ ixPc = "analysisJson"
    /\ ixMalformed' = IF analysisUnusable(body)
                        THEN ixMalformed \cup {"analysis"} ELSE ixMalformed
    /\ IF ~body.json \/ composeThrows(ixWellData, ixPredictData)
         THEN ixFail
         ELSE /\ ixChartData' = composeChart(ixWellData, ixPredictData)
              /\ ixAnalysis' = analysisOf(body)
              /\ ixLoading' = FALSE
              /\ ixPc' = "done"
              /\ ixWellData' = NoWellData
              /\ ixPredictData' = NoPredictData
    /\ UNCHANGED ixResp
    /\ UNCHANGED homeVars

IndexNext ==
    \/ \E e \in Endpoints, code \in Statuses : ixResponds(e, code)
    \/ \E e \in Endpoints : ixRejects(e)
    \/ \E body \in WellBodies(DefaultSource) : ixWellJson(body)
    \/ \E body \in PredictBodies(DefaultSource) : ixPredictJson(body)
    \/ \E body \in AnalysisBodies : ixAnalysisJson(body)

IndexSpec == Init /\ [][IndexNext]_vars

---------------------------------------------------------------------------
(* The composition on its own.  Both screens stand at the await of the     *)
(* analysis body, the last step before the chart series is composed, with  *)
(* a well-data body of any number of dates and levels and a predict body   *)
(* of any number of predicted levels; the step parses the analysis body    *)
(* and composes.                                                           *)

ComposeInit ==
    \E nDates \in 0..MaxLabels, nLevels \in 0..MaxLevels,
       nPredicted \in 0..MaxForecast :
        LET well(key) ==
                [json |-> TRUE,
                 hasDates |-> TRUE, dates |-> ServerDates(nDates),
                 hasLevels |-> TRUE, levels |-> ServerLevels(key, nLevels)]
            predict(key) ==
                [json |-> TRUE, hasPredicted |-> TRUE,
                 predicted_levels |-> ServerPredicted(key, nPredicted)]
        IN  /\ loading = TRUE
            /\ chartData = InitialChart
            /\ analysis = InitialAnalysis
            /\ selectedCity = "bhubaneswar_odisha"
            /\ modalVisible = FALSE
            /\ pc = "analysisJson"
            /\ cycleCity = "bhubaneswar_odisha"
            /\ wellData = well("bhubaneswar_odisha")
            /\ predictData = predict("bhubaneswar_odisha")
            /\ timeoutId = FALSE
            /\ net = "none"
            /\ sent = {"probe"} \cup Endpoints
            /\ parsed = {"well-data", "predict"}
            /\ probeOutcome = "ok"
            /\ status = [e \in Endpoints |-> "ok"]
            /\ malformed = {}
            /\ lastEnd = "none"
            /\ chartFrom = "none"
            /\ ixLoading = TRUE
            /\ ixChartData = InitialChart
            /\ ixAnalysis = InitialAnalysis
            /\ ixPc = "analysisJson"
            /\ ixResp = [e \in Endpoints |-> "ok"]
            /\ ixWellData = well(DefaultSource)
            /\ ixPredictData = predict(DefaultSource)
            /\ ixMalformed = {}

ComposeNext ==
    \/ \E body \in AnalysisBodies : analysisJson(body)
    \/ \E body \in AnalysisBodies : ixAnalysisJson(body)

ComposeSpec == ComposeInit /\ [][ComposeNext]_vars

---------------------------------------------------------------------------
(* The colour of the condition text, as both screens compute it.          *)

\* The characters of the condition strings the model uses.
chars(condition) ==
    CASE condition = "Critical" -> <<"C", "r", "i", "t", "i", "c", "a", "l">>
      [] condition = "Semi-Critical" ->
            <<"S", "e", "m", "i", "-", "C", "r", "i", "t", "i", "c", "a", "l">>
      [] condition = "Safe" -> <<"S", "a", "f", "e">>
      [] condition = "Connection Error" ->
            <<"C", "o", "n", "n", "e", "c", "t", "i", "o", "n", " ",
              "E", "r", "r", "o", "r">>
      [] condition = "Error" -> <<"E", "r", "r", "o", "r">>
      [] OTHER -> <<>>

\* String.prototype.includes
includes(text, part) ==
    \E i \in 0..(Len(text) - Len(part)) :
        SubSeq(text, i + 1, i + Len(part)) = part

\* includes('Critical') ? 'red' : includes('Semi-Critical') ? 'orange' : 'green'
conditionColor(condition) ==
    IF includes(chars(condition), chars("Critical")) THEN "red"
    ELSE IF includes(chars(condition), chars("Semi-Critical")) THEN "orange"
    ELSE "green"

---------------------------------------------------------------------------
(* The view state a consumer observes.                                    *)

Loading == loading
Failed == ~loading /\ analysis.condition = "Connection Error"
Ready == ~loading /\ analysis.condition # "Connection Error"

ixFailed == ~ixLoading /\ ixAnalysis.condition = "Error"
ixReady == ~ixLoading /\ ixAnalysis.condition # "Error"

InFlight == pc # "idle"
DataAwaits == {"well", "predict", "analysis"}

---------------------------------------------------------------------------
(* Reachability of the race of C1 and C2.  The city options are rendered  *)
(* only while loading is false, and loading is false only after the       *)
(* cycle ended: no selection happens while a cycle is in flight, and a    *)
(* cycle in flight is always the selected city's.                         *)

CycleIsForSelectedCity == InFlight => (loading /\ cycleCity = selectedCity)

SelectionOnlyWhenIdle == [][selectedCity' # selectedCity => ~InFlight]_vars

---------------------------------------------------------------------------
(* Claims.                                                                *)

\* C3: all-or-nothing fetch.  On either screen, when one of the three data
\* requests returned a non-success status the cycle ends in the failed
\* state and commits no chart series.
C3_AllOrNothing ==
    /\ ((\E e \in Endpoints : status[e] = "notOk") /\ ~InFlight)
          => (analysis.condition = "Connection Error"
              /\ chartFrom # "current")
    /\ ((\E e \in Endpoints : ixResp[e] = "notOk") /\ ixPc = "done")
          => (ixAnalysis.condition = "Error" /\ ixChartData = InitialChart)

\* C4: the view state is replaced wholesale.  A state that is not Loading
\* is Ready with a chart series written by the latest cycle, or Failed with
\* no chart series of an earlier cycle beside the error.
C4_WholesaleViewState ==
    /\ Ready => chartFrom = "current"
    /\ Failed => chartFrom # "earlier"

\* C5: connectivity short-circuit.  When the probe failed, returned a
\* non-success status or was aborted by the timer, the cycle ends in
\* Failed and only the probe was requested in it.
ProbeFailed == probeOutcome \in {"notOk", "reject", "abort"}

C5_ProbeShortCircuit ==
    /\ [](ProbeFailed => (/\ ~InFlight
                          /\ sent = {"probe"}
                          /\ analysis = connectionError(MsgCannotConnect)))
    /\ [][(~ProbeFailed /\ ProbeFailed') => Failed']_vars

C5_Witness ==
    ProbeFailed /\ Failed /\ sent = {"probe"} /\ probeOutcome = "abort"

\* C6: on mount and when the selection changes to another key the view is
\* Loading and a cycle has started for the selected key, its probe sent.
CycleStarted ==
    /\ loading = TRUE
    /\ pc = "probe"
    /\ net = "pending"
    /\ cycleCity = selectedCity
    /\ sent = {"probe"}

C7_LoadingOnlyBySelection ==
    [][(~loading /\ loading') => \E key \in CityKey : onPressCity(key)]_vars

C7_Witness == loading /\ lastEnd = "ready" /\ selectedCity = "jaipur_rajasthan"

\* C8: no automatic retry.  After a cycle ended in failure nothing is
\* requested while the selection stays the same, and a change of the
\* selection starts a new cycle.
CycleEndedFailed ==
    /\ analysis.condition = "Connection Error"
    /\ ~loading \/ ~InFlight

C9_DataRequestTimeout ==
    (pc \in DataAwaits /\ net = "lost") => ENABLED (Next /\ pc' # pc)

\* C10: decode failure.  On either screen, a cycle in which a body was not
\* JSON or lacked an expected field ends in the failed state.
C10_DecodeFailure ==
    /\ (malformed # {} /\ ~InFlight) => analysis.condition = "Connection Error"
    /\ (ixMalformed # {} /\ ixPc = "done") => ixAnalysis.condition = "Error"

\* C15: registry totality and validity.  The selected key always has an
\* entry in the registry, with a non-empty name, a latitude within
\* [-90, 90] and a longitude within [-180, 180] degrees.
ValidLocation(key) ==
    /\ key \in DOMAIN CITY_INFO
    /\ currentCity(key).name # ""
    /\ mapLocation(key).latitude >= -90 * 10000
    /\ mapLocation(key).latitude <= 90 * 10000
    /\ mapLocation(key).longitude >= -180 * 10000
    /\ mapLocation(key).longitude <= 180 * 10000

C15_RegistryValid ==
    /\ ValidLocation(selectedCity)
    /\ InFlight => ValidLocation(cycleCity)

\* the dashboard is rendered for a city chosen in the modal
C15_Witness ==
    /\ ~loading
    /\ selectedCity = "nagpur_maharashtra"
    /\ lastEnd # "none"


\* C16: severity classification.  In the rendered dashboard a condition
\* containing "Semi-Critical" is orange, one containing "Critical" but not
\* "Semi-Critical" is red, and any other condition is green.
C16_SeverityClasses ==
    (~loading /\ analysis.hasCondition) =>
        LET text == chars(analysis.condition)
            semi == includes(text, chars("Semi-Critical"))
            crit == includes(text, chars("Critical"))
            color == conditionColor(analysis.condition)
        IN  /\ semi => color = "orange"
            /\ (crit /\ ~semi) => color = "red"
            /\ ~crit => color = "green"

\* C17: Loading is never stuck.  Whenever the view is Loading a fetch cycle
\* for the selected city is in flight.
C17_LoadingHasCycle ==
    loading => (InFlight /\ cycleCity = selectedCity)


\* C14: analysis pass-through.  When the last step of a cycle parses the
\* analysis body and the view becomes Ready, the condition and the steps
\* shown are those of the body.
C14_AnalysisPassThrough ==
    [][\A body \in AnalysisBodies :
          (analysisJson(body) /\ Ready')
             => (/\ analysis'.condition = body.condition
                 /\ analysis'.steps = body.steps)]_vars

C14_Witness ==
    /\ Ready
    /\ chartFrom = "current"
    /\ analysis.condition = "Semi-Critical"
    /\ analysis.steps = <<"Reduce pumping">>

\* C18: request ordering within one cycle of HomeScreen.  well-data is
\* requested only after the probe succeeded, predict only after well-data
\* returned a success status, analysis only after predict did; after a
\* non-success status nothing more is requested; a body is parsed only
\* after all three statuses were successful.
C18_RequestOrdering ==
    /\ "probe" \in sent
    /\ "well-data" \in sent => probeOutcome = "ok"
    /\ "predict" \in sent => status["well-data"] = "ok"
    /\ "analysis" \in sent => status["predict"] = "ok"
    /\ status["well-data"] # "none" => "well-data" \in sent
    /\ status["predict"] # "none" => "predict" \in sent
    /\ status["analysis"] # "none" => "analysis" \in sent
    /\ (\E e \in Endpoints : status[e] = "notOk") => (~InFlight /\ parsed = {})
    /\ parsed # {} => \A e \in Endpoints : status[e] = "ok"

\* predict answered with a non-success status: analysis was never requested
C18_Witness ==
    /\ status["predict"] = "notOk"
    /\ sent = {"probe", "well-data", "predict"}
    /\ Failed

\* HomeScreen's part of C19.  When a cycle ends without committing, the
\* chart series, the selection and the modal are as before; the analysis is
\* the "Connection Error" sentinel with the error message and three hints,
\* and loading is false.
CycleEndsInError == InFlight /\ ~InFlight' /\ chartFrom' # "current"

HomeFailureKeepsChart ==
    [][CycleEndsInError =>
          (/\ chartData' = chartData
           /\ selectedCity' = selectedCity
           /\ modalVisible' = modalVisible
           /\ analysis'.condition = "Connection Error"
           /\ Len(analysis'.steps) = 4
           /\ loading' = FALSE)]_vars

\* a failure after a successful cycle: the chart is the earlier cycle's
FailureAfterSuccess ==
    /\ Failed
    /\ chartFrom = "earlier"
    /\ Len(chartData.datasets) = 2
    /\ selectedCity # "bhubaneswar_odisha"

\* C19: a failing cycle leaves the chart series unchanged.  On IndexScreen:
\* once a fetch of the cycle has rejected, the chart series is the one from
\* before the cycle (the empty initial series), loading is false, and the
\* analysis is the "Connection Error" sentinel.
C19_FailureSentinel ==
    (\E e \in Endpoints : ixResp[e] = "rejected")
        => /\ ixChartData = InitialChart
           /\ ~ixLoading
           /\ ixAnalysis.condition = "Connection Error"


\* The step of either screen that composes and commits the chart series.
HomeCommits == pc = "analysisJson" /\ pc' = "idle" /\ chartFrom' = "current"
IndexCommits == ixPc = "analysisJson" /\ ixPc' = "done" /\ ixReady'

ForecastOverlay(w, p, chart) ==
    LET H == Len(w.levels)
        F == Len(p.predicted_levels)
    IN  /\ Len(chart.datasets) = 2
        /\ chart.datasets[1].data = w.levels
        /\ Len(chart.datasets[2].data) = H + F
        /\ \A i \in 1..H : chart.datasets[2].data[i] = NullValue
        /\ \A j \in 1..F :
              chart.datasets[2].data[H + j] = p.predicted_levels[j]

\* C11: forecast overlay composition.  For a historical series of length H
\* and a forecast of length F, the forecast dataset has length H + F, its
\* first H entries are null and the next F are the predicted levels in
\* order; the historical dataset is well.levels as received.
C11_ForecastOverlay ==
    [][/\ HomeCommits => ForecastOverlay(wellData, predictData, chartData')
       /\ IndexCommits =>
             ForecastOverlay(ixWellData, ixPredictData, ixChartData')]_vars

\* two levels and three predicted levels
C11_Witness ==
    /\ chartFrom = "current"
    /\ Len(chartData.datasets) = 2
    /\ chartData.datasets[1].data = ServerLevels(selectedCity, 2)
    /\ chartData.datasets[2].data =
           <<NullValue, NullValue>> \o ServerPredicted(selectedCity, 3)

EqualLengths(w, p, chart) ==
    /\ Len(chart.datasets[1].data) = Len(chart.datasets[2].data)
    /\ Len(chart.datasets[1].data)
          = Len(w.levels) + Len(p.predicted_levels)

\* C12: ChartSeries length invariant.  In every composed chart series the
\* historical and the forecast dataset have equal length, and that length
\* is historical.length + forecast.length.
C12_EqualLengths ==
    [][/\ HomeCommits => EqualLengths(wellData, predictData, chartData')
       /\ IndexCommits =>
             EqualLengths(ixWellData, ixPredictData, ixChartData')]_vars

DatasetLengths(w, p, chart) ==
    /\ Len(chart.datasets[1].data) = Len(w.levels)
    /\ Len(chart.datasets[2].data)
          = Len(w.levels) + Len(p.predicted_levels)
    /\ (Len(chart.datasets[1].data) = Len(chart.datasets[2].data))
          <=> (Len(p.predicted_levels) = 0)

\* C12 as amended: the forecast dataset has length historical.length +
\* forecast.length, the historical dataset has length historical.length;
\* the two are equal only when the forecast is empty.
C12_DatasetLengths ==
    [][/\ HomeCommits => DatasetLengths(wellData, predictData, chartData')
       /\ IndexCommits =>
             DatasetLengths(ixWellData, ixPredictData, ixChartData')]_vars

\* three levels and two predicted levels: datasets of length 3 and 5
C12_Witness ==
    /\ chartFrom = "current"
    /\ Len(chartData.datasets) = 2
    /\ Len(chartData.datasets[1].data) = 3
    /\ Len(chartData.datasets[2].data) = 5

\* displayLabels are the labels at the 0-based indices 0, 60, 120, ...
StrideLabels(dates, labels) ==
    \A k \in 1..Len(labels) :
        /\ (k - 1) * LABEL_STRIDE + 1 <= Len(dates)
        /\ labels[k] = dates[(k - 1) * LABEL_STRIDE + 1]

\* ceil(L / 60)
CeilStride(L) == (L + LABEL_STRIDE - 1) \div LABEL_STRIDE

Subsampled(dates, labels) ==
    /\ StrideLabels(dates, labels)
    /\ Len(dates) > 0 => Len(labels) = CeilStride(Len(dates))
    /\ Len(dates) <= LABEL_STRIDE => Len(labels) = 1

\* C13: label subsampling.  For combinedLabels of length L, displayLabels
\* are the labels at indices 0, 60, 120, ... in order, ceil(L / 60) of them
\* when L > 0, and exactly 1 when L <= 60.
C13_LabelSubsampling ==
    [][/\ HomeCommits => Subsampled(wellData.dates, chartData'.labels)
       /\ IndexCommits => Subsampled(ixWellData.dates, ixChartData'.labels)]_vars

SubsampledOrEmpty(dates, labels) ==
    /\ StrideLabels(dates, labels)
    /\ Len(labels) = CeilStride(Len(dates))
    /\ (Len(dates) >= 1 /\ Len(dates) <= LABEL_STRIDE) => Len(labels) = 1
    /\ Len(dates) = 0 => labels = <<>>

\* C13 as amended: displayLabels are the labels at indices 0, 60, 120, ...
\* in order, ceil(L / 60) of them: exactly 1 when 1 <= L <= 60 and none
\* when L = 0.
C13_LabelSubsamplingOrEmpty ==
    [][/\ HomeCommits =>
             SubsampledOrEmpty(wellData.dates, chartData'.labels)
       /\ IndexCommits =>
             SubsampledOrEmpty(ixWellData.dates, ixChartData'.labels)]_vars

\* 121 dates or more: the labels of indices 0, 60 and 120
C13_Witness ==
    /\ chartFrom = "current"
    /\ chartData.labels = <<1, 61, 121>>


=============================================================================
